---- MODULE Spec2Model ----
(***************************************************************************)
(* Earth Launcher (src/main.py, class GameLauncher): the catalog, the      *)
(* install root games/, the install workers started by Activate, the       *)
(* progress fields the workers write into the catalog entries, and the     *)
(* presentation loop (run / handle_input / draw) that reads them.          *)
(*                                                                         *)
(* Threads: the presentation thread executes one handler at a time (the    *)
(* actions guarded by mainpc = "loop", and the steps of draw); every       *)
(* install_game call runs on its own daemon thread (a record in the bag    *)
(* workers) and interleaves with the presentation thread at each step.     *)
(***************************************************************************)
EXTENDS Integers, Sequences, FiniteSets, Bags, TLC

\* ------------------------------------------------------------------ bounds
\* Thread slots: install_game calls started during one behaviour.
MaxWorkers == 2
\* Chunks response.iter_content yields for one archive.
NumChunks == 2
\* Catalog length up to which load_local_games may still append.
MaxCatalog == 2
\* Child processes run_game spawns during one behaviour.
MaxChildren == 2

\* ------------------------------------------------------------- universes
Names == {"g1", "g2"}

\* File names that occur inside the archives.
FileNames == {"GameRuntime", "readme.txt", "Launcher", "main.py", "gameruntime",
              "Main"}

\* pathlib suffix of a name ("" when it has none).
Suffix(f) ==
    CASE f = "readme.txt" -> ".txt"
      [] f = "main.py" -> ".py"
      [] OTHER -> ""

\* The name without its suffix.
Stem(f) ==
    CASE f = "readme.txt" -> "readme"
      [] f = "main.py" -> "main"
      [] OTHER -> f

\* exe_file.name.lower()
Lower(f) ==
    CASE f = "GameRuntime" -> "gameruntime"
      [] f = "Launcher" -> "launcher"
      [] f = "Main" -> "main"
      [] OTHER -> f

\* file_path.name[0].isupper()
FirstIsUpper(f) ==
    f \in {"GameRuntime", "Launcher", "Main"}

\* zip_ref.namelist() of the archives a game may be packaged as.
ArchiveKinds == { <<>>, <<"readme.txt">>, <<"GameRuntime", "readme.txt">>,
                  <<"Launcher">>, <<"main.py">> }

\* Archives whose main file is named like a listed name in another case.
FixupKinds == { <<"gameruntime">>, <<"Launcher", "Main">> }

\* Which archive each game name is packaged as, fixed for one behaviour.
ArchiveAssignments ==
    { [g \in Names |-> IF g = "g1" THEN a ELSE <<"GameRuntime", "readme.txt">>]
        : a \in ArchiveKinds \cup FixupKinds }

\* Items of the remote repository's root listing: name and final extension.
ListingItem(n, e) == [name |-> n, ext |-> e]

\* repo.get_contents("") results the remote may return.
RemoteListings ==
    { << ListingItem("g1", ".zip"), ListingItem("g2", ".zip") >>,
      << ListingItem("README", ".md"), ListingItem("g1", ".zip") >> }

\* *.zip files under games/ when the launcher starts.
InitialLocalZips == { {}, {"g1"} }

\* The order in which a directory enumeration (iterdir, glob) yields names: one
\* order for a behaviour, either of the two below; an enumeration of a
\* directory yields the names it holds in that order.
FileSeq ==
    << "Launcher", "Main", "GameRuntime", "gameruntime", "main.py", "readme.txt" >>

Reverse(s) ==
    [k \in 1..Len(s) |-> s[Len(s) + 1 - k]]

EnumerationOrders == { FileSeq, Reverse(FileSeq) }

\* games/g1 as an earlier run or the user left it, when the launcher starts:
\* its files and those of them with execute permission.
InstalledKinds ==
    { [files |-> {"GameRuntime", "readme.txt"}, exec |-> {"GameRuntime"}],
      [files |-> {"GameRuntime", "Launcher"}, exec |-> {"GameRuntime", "Launcher"}],
      [files |-> {"GameRuntime", "main.py"}, exec |-> {"GameRuntime"}],
      [files |-> {"Launcher", "Main"}, exec |-> {}],
      [files |-> {"Launcher"}, exec |-> {}],
      [files |-> {"main.py"}, exec |-> {}],
      [files |-> {"main.py"}, exec |-> {"main.py"}],
      [files |-> {"readme.txt"}, exec |-> {}] }

VARIABLES
    games,              \* self.games: sequence of catalog entries
    fetch,              \* how the remote listing of the last load_games ended
    installed_games,    \* self.installed_games
    selected_index,     \* self.selected_index
    show_exit_button,   \* self.show_exit_button
    zips,               \* games/<name>.zip, per name
    dirs,               \* games/<name>/, per name
    archive,            \* the archive each name is packaged as
    glob_order,         \* the order directory enumerations yield names in
    workers,            \* the install_game threads started so far (a bag)
    children,           \* the processes run_game has spawned, in order
    current_game_process,   \* -1: no such attribute, 0: None, k: children[k]
    success,            \* handle_input: what the last run_game call returned
    mainpc,             \* position of the presentation thread in run()
    row,                \* draw: index of the catalog row being rendered
    progress,           \* draw: its local variable progress
    win_games,          \* ModernGameLauncher: self.games, saved to games.json
    install_dir,        \* ModernGameLauncher: the directories under install_dir
    download_and_install    \* ModernGameLauncher: the installation thread

vars == << games, fetch, installed_games, selected_index, show_exit_button,
           zips, dirs, archive, glob_order, workers, children,
           current_game_process, success, mainpc, row, progress,
           win_games, install_dir, download_and_install >>

\* ------------------------------------------------------------ file system
NoZip == [exists |-> FALSE, chunks |-> {}]
NoDir == [exists |-> FALSE, files |-> {}, exec |-> {}]

AllChunks == 1..NumChunks

\* zipfile.ZipFile(zip_path) opens only a file holding the whole archive.
ZipReadable(z) ==
    z.exists /\ z.chunks = AllChunks

\* The top-level entries of games/.
RootEntries ==
    { <<n, "zip">> : n \in { m \in Names : zips[m].exists } }
      \cup { <<n, "dir">> : n \in { m \in Names : dirs[m].exists } }

\* --------------------------------------------------------------- catalog
NoProgress == [installing |-> FALSE, progress |-> 0, action |-> "none"]

Entry(n, isRemote) ==
    [name |-> n, remote |-> isRemote, prog |-> NoProgress]

\* (variant: the loop takes every item of the listing)
FromListingAll(listing) ==
    [k \in 1..Len(listing) |-> Entry(listing[k].name, TRUE)]

\* load_games, the loop over contents: one entry per item ending in .zip.
RECURSIVE FromListing(_)
FromListing(listing) ==
    IF listing = <<>> THEN <<>>
    ELSE LET rest == FromListing(Tail(listing))
             c == Head(listing)
         IN IF c.ext = ".zip" THEN << Entry(c.name, TRUE) >> \o rest ELSE rest

\* The orders in which a directory enumeration may yield the names of S.
RECURSIVE Orders(_)
Orders(S) ==
    IF S = {} THEN { <<>> }
    ELSE UNION { { <<x>> \o s : s \in Orders(S \ {x}) } : x \in S }

\* load_local_games: entries appended for games/*.zip, in glob order.
LocalEntries(order) ==
    [i \in 1..Len(order) |-> Entry(order[i], FALSE)]

LocalZipNames == { n \in Names : zips[n].exists }

\* Index of the first catalog entry named n, 0 when there is none.
FirstIndex(n) ==
    IF \E i \in 1..Len(games) : games[i].name = n
    THEN CHOOSE i \in 1..Len(games) :
            /\ games[i].name = n
            /\ \A j \in 1..(i - 1) : games[j].name # n
    ELSE 0

\* update_install_progress: the three stores of one call, under progress_lock.
WithProgress(n, percentage, act) ==
    LET i == FirstIndex(n)
    IN IF i = 0 THEN games
       ELSE [games EXCEPT ![i].prog =
                [installing |-> TRUE, progress |-> percentage, action |-> act]]

\* clear_install_progress: the three pops of one call, under progress_lock.
WithoutProgress(n) ==
    LET i == FirstIndex(n)
    IN IF i = 0 THEN games ELSE [games EXCEPT ![i].prog = NoProgress]

HasProgress(n) ==
    \E i \in 1..Len(games) : games[i].name = n /\ games[i].prog.installing


\* load_games when the remote listing arrives: self.games is rebuilt from it.
RemoteCatalogs ==
    { FromListing(l) : l \in RemoteListings }

\* load_games when get_repo / get_contents raises: the except clause runs
\* before self.games was reset, and load_local_games appends to what is there.
FallbackCatalogs(prev, zipNames) ==
    { prev \o LocalEntries(o) : o \in Orders(zipNames) }

\* self.games[self.selected_index], Python indexing: 0 when it raises
\* IndexError, otherwise the 1-based position.
PyIndex(idx, len) ==
    IF idx >= 0 /\ idx < len THEN idx + 1
    ELSE IF idx < 0 /\ -idx <= len THEN len + idx + 1
    ELSE 0

Max(a, b) == IF a >= b THEN a ELSE b
Min(a, b) == IF a <= b THEN a ELSE b

navVars == << selected_index, show_exit_button >>
drawVars == << row, progress >>
procVars == << children, current_game_process, success >>
winVars == << win_games, install_dir, download_and_install >>
envVars == << archive, glob_order, winVars >>
catVars == << games, fetch >>

\* ----------------------------- earth_launcher_windows.py: ModernGameLauncher
\* Names of repository games as fetch_github_games forms them.
WinNames == { "Retro Snake", "Pong Remastered" }

\* game_name.lower().replace(' ', '_'): the directory of a game under
\* install_dir.
GameDirName(g) ==
    IF g = "Retro Snake" THEN "retro_snake" ELSE "pong_remastered"

WinDirs == { GameDirName(g) : g \in WinNames }

\* File names in an archive or a game directory; "<game>" stands for the
\* game's directory name, so "<game>.exe" is guess_executable_name(game_name).
WinFiles == { "<game>.exe", "<game>.py", "game.exe", "tool.exe", "README.md" }

\* The archives the repository may serve for a game: the file sets, and a
\* body that is no zip archive.
RepositoryZips ==
    { [readable |-> TRUE, files |-> {"<game>.exe", "README.md"}],
      [readable |-> TRUE, files |-> {"tool.exe"}],
      [readable |-> TRUE, files |-> {"README.md"}],
      [readable |-> FALSE, files |-> {}] }

\* The archive download_game_zip writes itself when the request fails: the
\* generated <game>.py and a README.
DemoZip ==
    [readable |-> TRUE, files |-> {"<game>.py", "README.md"}]

NoArchive == [readable |-> FALSE, files |-> {}]

\* No installation thread has been started.
NoInstall ==
    [pc |-> "idle", game |-> "", zip |-> NoArchive, download |-> "none",
     result |-> "none", before |-> {}]

\* --------------------------------------------------------------- workers
\* A thread running install_game(game): its position, its argument, the
\* locals total_size and downloaded / i, whether the download it has just
\* finished was of an HTTP error response, and once it has returned the value and the step it returned from. before is the listing of games/ when the
\* call began (kept for the round-trip property only).
NewWorker(g) ==
    [pc |-> "start", name |-> g.name, remote |-> g.remote, total |-> 0, i |-> 0,
     status |-> "none", result |-> "none", stage |-> "none", before |-> {}]

Threads == BagToSet(workers)

Running(r) == r.pc # "done"

\* The number of threads among those of S.
Copies(S) ==
    BagCardinality([r \in S |-> workers[r]])

\* The thread me continues as the record new.
Step(me, new) ==
    workers' = (workers (-) SetToBag({me})) (+) SetToBag({new})

\* return from install_game with the given value.
Return(me, value) ==
    [me EXCEPT !.pc = "done", !.result = value, !.stage = me.pc,
               !.i = 0, !.total = 0, !.status = "none"]

\* (variant: the exception leaves install_game and ends the thread)
RaiseEscapes(me) ==
    Return(me, "raised")

\* The except clause of install_game: print, return False.
Raise(me) ==
    Return(me, "False")

\* ------------------------------------------------------------------ Init
\* __init__: empty catalog, empty installed set, then load_games(). games/ is
\* new, or holds g1 from before.
Init ==
    /\ archive \in ArchiveAssignments
    /\ glob_order \in EnumerationOrders
    /\ \E local \in InitialLocalZips :
        /\ zips = [n \in Names |->
                      IF n \in local THEN [exists |-> TRUE, chunks |-> AllChunks]
                      ELSE NoZip]
        /\ \/ fetch = "ok" /\ games \in RemoteCatalogs
           \/ fetch = "failed" /\ games \in FallbackCatalogs(<<>>, local)
    /\ \/ dirs = [n \in Names |-> NoDir]
       \/ \E k \in InstalledKinds :
            dirs = [n \in Names |->
                      IF n = "g1"
                      THEN [exists |-> TRUE, files |-> k.files, exec |-> k.exec]
                      ELSE NoDir]
    /\ installed_games = {}
    /\ selected_index = 0
    /\ show_exit_button = TRUE
    /\ workers = EmptyBag
    /\ children = <<>>
    /\ current_game_process = -1
    /\ success = "none"
    /\ mainpc = "loop"
    /\ row = 0
    /\ progress = 0
    /\ win_games = {}
    /\ install_dir = [d \in WinDirs |-> NoDir]
    /\ download_and_install = NoInstall

Alive ==
    mainpc \notin {"exited", "crashed"}

\* (variant: the enumeration order turns round once a child has been spawned)
ListedAnew(S) ==
    LET hits == { k \in 1..Len(glob_order) : glob_order[k] \in S }
    IN IF hits = {} THEN {}
       ELSE IF children = <<>>
            THEN { glob_order[CHOOSE k \in hits : \A j \in hits : k <= j] }
            ELSE { glob_order[CHOOSE k \in hits : \A j \in hits : k >= j] }

\* The name of S an enumeration yields first, as a set (empty when S is).
FirstListed(S) ==
    LET hits == { k \in 1..Len(glob_order) : glob_order[k] \in S }
    IN IF hits = {} THEN {}
       ELSE { glob_order[CHOOSE k \in hits : \A j \in hits : k <= j] }

\* ------------------------------------------------- set_execute_permissions
main_executables ==
    << "GameRuntime", "game", "main", "start", "run", "launch", "app", "program" >>

\* The first loop: the first listed name that exists in the directory, as a
\* set (empty when none exists).
FirstNamed(d) ==
    LET hits == { k \in 1..Len(main_executables) : main_executables[k] \in d.files }
    IN IF hits = {} THEN {}
       ELSE { main_executables[CHOOSE k \in hits : \A j \in hits : k <= j] }

\* The second loop: files without suffix whose name starts with a capital.
Capitalised(d) ==
    { f \in d.files : Suffix(f) = "" /\ FirstIsUpper(f) }

\* The file one call makes executable, as a set: the first listed name that
\* exists, else the first capitalised file iterdir yields.
ChmodTargets(d) ==
    IF FirstNamed(d) # {} THEN FirstNamed(d) ELSE FirstListed(Capitalised(d))

\* os.chmod(path, 0o755) on the file chosen; the directory afterwards.
Chmodded(d) ==
    [d EXCEPT !.exec = @ \cup ChmodTargets(d)]

\* (variant: the second loop is skipped for a missing directory)
PermissionsNeverRaises(d) ==
    FALSE

\* game_path.iterdir() raises FileNotFoundError when games/<name> is missing.
PermissionsRaises(d) ==
    FirstNamed(d) = {} /\ ~d.exists

\* --------------------------------------------------- install_game, by step
\* (variant: no "already installed" test)
StartAlways ==
    \E me \in Threads :
      /\ Alive /\ me.pc = "start"
      /\ Step(me, [me EXCEPT !.before = RootEntries,
                             !.pc = IF me.remote THEN "request"
                                    ELSE "extract_open"])
      /\ UNCHANGED << catVars, installed_games, navVars, zips, dirs, envVars,
                      mainpc, drawVars, procVars >>

\* Lines 213-229: mkdir, the "already installed" test, the choice of source.
Start ==
    \E me \in Threads :
      /\ Alive /\ me.pc = "start"
      /\ Step(me, IF dirs[me.name].exists
                  THEN Return([me EXCEPT !.before = RootEntries], "False")
                  ELSE [me EXCEPT !.before = RootEntries,
                                  !.pc = IF me.remote THEN "request"
                                         ELSE "extract_open"])
      /\ UNCHANGED << catVars, installed_games, navVars, zips, dirs, envVars,
                      mainpc, drawVars, procVars >>

\* download_with_progress: requests.get answers, declaring a content-length
\* or none, and the staged file is opened for writing (truncated).
Request ==
    \E me \in Threads :
      /\ Alive /\ me.pc = "request"
      /\ \E declared \in {0, NumChunks} :
            Step(me, [me EXCEPT !.pc = "download", !.i = 0, !.total = declared])
      /\ zips' = [zips EXCEPT ![me.name] = [exists |-> TRUE, chunks |-> {}]]
      /\ UNCHANGED << catVars, installed_games, navVars, dirs, envVars,
                      mainpc, drawVars, procVars >>

\* requests.get answers with a content-length smaller than the number of bytes
\* iter_content yields afterwards (the length of a compressed body that
\* iter_content decodes, or a wrong header).
RequestUnderstated ==
    \E me \in Threads :
      /\ Alive /\ me.pc = "request"
      /\ \E declared \in 1..(NumChunks - 1) :
            Step(me, [me EXCEPT !.pc = "download", !.i = 0, !.total = declared])
      /\ zips' = [zips EXCEPT ![me.name] = [exists |-> TRUE, chunks |-> {}]]
      /\ UNCHANGED << catVars, installed_games, navVars, dirs, envVars,
                      mainpc, drawVars, procVars >>

\* requests.get raises (no connection).
RequestFails ==
    \E me \in Threads :
      /\ Alive /\ me.pc = "request"
      /\ Step(me, Raise(me))
      /\ UNCHANGED << catVars, installed_games, navVars, zips, dirs, envVars,
                      mainpc, drawVars, procVars >>

\* progress = (downloaded / total_size) * 100; the model keeps the integer
\* part of the float.
DownloadPercent(downloaded, total) ==
    (downloaded * 100) \div total

\* Whether the chunk loop calls update_install_progress: if total_size > 0.
Reports(total) ==
    total > 0

\* One iteration of the chunk loop: write, count, report when a size is known.
Chunk ==
    \E me \in Threads :
      LET k == me.i + 1
      IN /\ Alive /\ me.pc = "download" /\ me.i < NumChunks
         /\ zips' = IF zips[me.name].exists
                    THEN [zips EXCEPT ![me.name].chunks = @ \cup {k}]
                    ELSE zips
         /\ games' = IF Reports(me.total)
                     THEN WithProgress(me.name, DownloadPercent(k, me.total),
                                       "Downloading")
                     ELSE games
         /\ Step(me, [me EXCEPT !.i = k,
                         !.pc = IF k = NumChunks THEN "extract_open" ELSE "download"])
         /\ UNCHANGED << fetch, installed_games, navVars, dirs, envVars,
                         mainpc, drawVars, procVars >>

\* iter_content raises in mid-transfer.
ChunkFails ==
    \E me \in Threads :
      /\ Alive /\ me.pc = "download" /\ me.i < NumChunks
      /\ Step(me, Raise(me))
      /\ UNCHANGED << catVars, installed_games, navVars, zips, dirs, envVars,
                      mainpc, drawVars, procVars >>

\* requests.get answers with an HTTP error status (404, 500): it returns the
\* response, nothing calls raise_for_status, and the chunk loop writes the
\* body of the error page, one chunk, to the staged file, reporting 100% when
\* the response declares a length. download_with_progress returns.
RequestHttpError ==
    \E me \in Threads :
      /\ Alive /\ me.pc = "request"
      /\ Step(me, [me EXCEPT !.pc = "extract_open", !.status = "error"])
      /\ zips' = [zips EXCEPT ![me.name] = [exists |-> TRUE, chunks |-> {}]]
      /\ \E declared \in {0, 1} :
            games' = IF Reports(declared)
                     THEN WithProgress(me.name, DownloadPercent(1, 1), "Downloading")
                     ELSE games
      /\ UNCHANGED << fetch, installed_games, navVars, dirs, envVars,
                      mainpc, drawVars, procVars >>

\* extract_with_progress: ZipFile(zip_path) and namelist(); BadZipFile or
\* FileNotFoundError when the file is not a whole archive.
ExtractOpen ==
    \E me \in Threads :
      /\ Alive /\ me.pc = "extract_open"
      /\ Step(me, IF ~ZipReadable(zips[me.name]) THEN Raise(me)
                  ELSE [me EXCEPT !.i = 0, !.total = 0, !.status = "none",
                           !.pc = IF Len(archive[me.name]) = 0
                                  THEN "permissions" ELSE "extract"])
      /\ UNCHANGED << catVars, installed_games, navVars, zips, dirs, envVars,
                      mainpc, drawVars, procVars >>

\* progress = ((i + 1) / total_files) * 100; the integer part likewise.
ExtractPercent(done, total_files) ==
    (done * 100) \div total_files

\* zip_ref.extract(file_name, extract_path): creates games/<name> when it is
\* missing and writes the entry, with no execute permission on a new file.
Extracted(d, f) ==
    [exists |-> TRUE, files |-> d.files \cup {f}, exec |-> d.exec]

\* One iteration of the entry loop: extract, report.
ExtractEntry ==
    \E me \in Threads :
      LET entries == archive[me.name]
          k == me.i + 1
      IN /\ Alive /\ me.pc = "extract" /\ me.i < Len(entries)
         /\ dirs' = [dirs EXCEPT ![me.name] = Extracted(@, entries[k])]
         /\ games' = WithProgress(me.name, ExtractPercent(k, Len(entries)),
                                  "Extracting")
         /\ Step(me, [me EXCEPT !.i = k,
                         !.pc = IF k = Len(entries) THEN "permissions" ELSE "extract"])
         /\ UNCHANGED << fetch, installed_games, navVars, zips, envVars,
                         mainpc, drawVars, procVars >>

\* zip_ref.extract raises (write error).
ExtractFails ==
    \E me \in Threads :
      /\ Alive /\ me.pc = "extract"
      /\ Step(me, Raise(me))
      /\ UNCHANGED << catVars, installed_games, navVars, zips, dirs, envVars,
                      mainpc, drawVars, procVars >>

\* set_execute_permissions(game_path), called at line 235.
Permissions ==
    \E me \in Threads :
      LET d == dirs[me.name]
      IN /\ Alive /\ me.pc = "permissions"
         /\ IF PermissionsRaises(d)
            THEN /\ Step(me, Raise(me))
                 /\ dirs' = dirs
            ELSE /\ Step(me, [me EXCEPT !.pc = "cleanup", !.i = 0])
                 /\ dirs' = [dirs EXCEPT ![me.name] = Chmodded(d)]
         /\ UNCHANGED << catVars, installed_games, navVars, zips, envVars,
                         mainpc, drawVars, procVars >>

\* Lines 238-239: if zip_path.exists(): zip_path.unlink(). The staged download
\* and the local archive are the same path games/<name>.zip.
Cleanup ==
    \E me \in Threads :
      /\ Alive /\ me.pc = "cleanup"
      /\ zips' = [zips EXCEPT ![me.name] = NoZip]
      /\ Step(me, [me EXCEPT !.pc = "finish"])
      /\ UNCHANGED << catVars, installed_games, navVars, dirs, envVars,
                      mainpc, drawVars, procVars >>

\* Lines 241-244: installed_games.add, clear_install_progress, return True.
Finish ==
    \E me \in Threads :
      /\ Alive /\ me.pc = "finish"
      /\ installed_games' = installed_games \cup {me.name}
      /\ games' = WithoutProgress(me.name)
      /\ Step(me, Return(me, "True"))
      /\ UNCHANGED << fetch, navVars, zips, dirs, envVars, mainpc, drawVars,
                      procVars >>

\* ----------------------------------------------------------- delete_game
\* shutil.rmtree(game_path)
Removed(d) == NoDir

\* ------------------------------------------------------------- run_game
\* Line 372: os.access(exe_file, os.X_OK)
IsExecutable(d, f) ==
    f \in d.exec

\* Lines 373-376: a listed name in any case, or no suffix and a capital first.
IsMainExecutable(f) ==
    \/ Lower(f) \in { "gameruntime", "game", "main", "start", "run", "launch",
                      "app", "program" }
    \/ (Suffix(f) = "" /\ FirstIsUpper(f))

\* subprocess.Popen([path]) is refused for a file without execute permission
\* (an executable script is taken to carry its interpreter line).
SpawnsDirectly(d, f) ==
    f \in d.exec

\* Lines 369-412: the file the scan over glob("*") starts, as a set; it tries
\* the candidates in enumeration order and returns at the first that spawns.
ScanLaunches(d) ==
    FirstListed({ f \in d.files : (IsExecutable(d, f) \/ IsMainExecutable(f))
                                     /\ SpawnsDirectly(d, f) })

executables == << "game", "main", "start", "run", "launch", "app", "program" >>
extensions == << "", ".py", ".sh", ".exe", ".bin", ".elf" >>

\* Position of stem + suffix in the double loop of lines 418-419, 0 if absent.
CommonRank(f) ==
    LET es == { k \in 1..Len(executables) : executables[k] = Stem(f) }
        xs == { k \in 1..Len(extensions) : extensions[k] = Suffix(f) }
    IN IF es = {} \/ xs = {} THEN 0
       ELSE (CHOOSE k \in es : TRUE) * Len(extensions) + (CHOOSE k \in xs : TRUE)

\* Lines 425-428: a .py file is handed to sys.executable, others run directly.
CommonSpawns(d, f) ==
    Suffix(f) = ".py" \/ SpawnsDirectly(d, f)

\* Lines 414-433: the first common name that exists and spawns, as a set.
CommonLaunches(d) ==
    LET ok == { f \in d.files : CommonRank(f) > 0 /\ CommonSpawns(d, f) }
    IN { f \in ok : \A g \in ok : CommonRank(f) <= CommonRank(g) }

\* Lines 436-444: the first *.py file in glob order, as a set.
PythonLaunches(d) ==
    FirstListed({ f \in d.files : Suffix(f) = ".py" })

\* What one run_game call starts: the file, the command form, and whether
\* the Popen object is stored in self.current_game_process (line 394 only).
LaunchChoices(d) ==
    IF ScanLaunches(d) # {}
    THEN { [file |-> f, via |-> "direct", tracked |-> TRUE] : f \in ScanLaunches(d) }
    ELSE IF CommonLaunches(d) # {}
    THEN { [file |-> f, via |-> IF Suffix(f) = ".py" THEN "python" ELSE "direct",
            tracked |-> FALSE] : f \in CommonLaunches(d) }
    ELSE { [file |-> f, via |-> "python", tracked |-> FALSE] : f \in PythonLaunches(d) }

Child(n, c) ==
    [name |-> n, file |-> c.file, via |-> c.via, alive |-> TRUE]

\* ------------------------------------------ the presentation thread: run()
\* check_installed_games: the names of the directories under games/.
InstalledScan ==
    { n \in Names : dirs[n].exists }

\* Lines 673-676, every two seconds.
CheckInstalled ==
    /\ mainpc = "loop"
    /\ installed_games' = InstalledScan
    /\ UNCHANGED << catVars, navVars, zips, dirs, envVars, workers, mainpc,
                    drawVars, procVars >>

\* Lines 679-689: the exited child's handle is dropped.
Poll ==
    /\ mainpc = "loop"
    /\ current_game_process > 0
    /\ ~children[current_game_process].alive
    /\ current_game_process' = 0
    /\ UNCHANGED << catVars, installed_games, navVars, zips, dirs, envVars,
                    workers, mainpc, drawVars, children, success >>

\* A spawned game ends on its own.
ChildExits(k) ==
    /\ k \in 1..Len(children)
    /\ children[k].alive
    /\ children' = [children EXCEPT ![k].alive = FALSE]
    /\ UNCHANGED << catVars, installed_games, navVars, zips, dirs, envVars,
                    workers, mainpc, drawVars, current_game_process, success >>

\* handle_input, UP / K_UP.
MoveUp ==
    /\ mainpc = "loop"
    /\ selected_index' = Max(0, selected_index - 1)
    /\ UNCHANGED << catVars, installed_games, show_exit_button, zips, dirs,
                    envVars, workers, mainpc, drawVars, procVars >>

\* handle_input, DOWN / K_DOWN.
MoveDown ==
    LET max_index == IF show_exit_button THEN Len(games) ELSE Len(games) - 1
    IN /\ mainpc = "loop"
       /\ selected_index' = Min(max_index, selected_index + 1)
       /\ UNCHANGED << catVars, installed_games, show_exit_button, zips, dirs,
                       envVars, workers, mainpc, drawVars, procVars >>

\* handle_input, LEFT / K_LEFT.
ToggleExit ==
    /\ mainpc = "loop"
    /\ show_exit_button' = ~show_exit_button
    /\ UNCHANGED << catVars, installed_games, selected_index, zips, dirs,
                    envVars, workers, mainpc, drawVars, procVars >>

\* handle_input, SELECT / K_r: load_games(), the remote listing arrives.
RefreshRemote ==
    /\ mainpc = "loop"
    /\ games' \in RemoteCatalogs
    /\ fetch' = "ok"
    /\ UNCHANGED << installed_games, navVars, zips, dirs, envVars, workers,
                    mainpc, drawVars, procVars >>

\* handle_input, SELECT / K_r: load_games(), the remote call raises.
RefreshFallback ==
    /\ mainpc = "loop"
    /\ \E g \in FallbackCatalogs(games, LocalZipNames) :
          /\ Len(g) <= MaxCatalog
          /\ games' = g
    /\ fetch' = "failed"
    /\ UNCHANGED << installed_games, navVars, zips, dirs, envVars, workers,
                    mainpc, drawVars, procVars >>

\* handle_input, A / K_RETURN with the shutdown button selected.
ActivateShutdown ==
    /\ mainpc = "loop"
    /\ show_exit_button /\ selected_index >= Len(games)
    /\ mainpc' = "exited"
    /\ UNCHANGED << catVars, installed_games, navVars, zips, dirs, envVars,
                    workers, drawVars, procVars >>

\* The branch  elif self.selected_index < len(self.games)  of A is taken.
EntrySelected ==
    /\ ~(show_exit_button /\ selected_index >= Len(games))
    /\ selected_index < Len(games)

Selected ==
    games[PyIndex(selected_index, Len(games))]

\* games[selected_index] raises IndexError (A or B): the exception leaves run().
SelectCrash ==
    /\ mainpc = "loop"
    /\ selected_index < Len(games)
    /\ PyIndex(selected_index, Len(games)) = 0
    /\ mainpc' = "crashed"
    /\ UNCHANGED << catVars, installed_games, navVars, zips, dirs, envVars,
                    workers, drawVars, procVars >>

\* (variant: the thread is started whatever installed_games holds)
ActivateInstallAlways ==
    /\ mainpc = "loop"
    /\ EntrySelected
    /\ PyIndex(selected_index, Len(games)) # 0
    /\ BagCardinality(workers) < MaxWorkers
    /\ workers' = workers (+) SetToBag({ NewWorker(Selected) })
    /\ UNCHANGED << catVars, installed_games, navVars, zips, dirs, envVars,
                    mainpc, drawVars, procVars >>

\* handle_input, A / K_RETURN on an entry not in installed_games:
\* threading.Thread(target=self.install_game, args=(game,)).start()
ActivateInstall ==
    /\ mainpc = "loop"
    /\ EntrySelected
    /\ PyIndex(selected_index, Len(games)) # 0
    /\ Selected.name \notin installed_games
    /\ BagCardinality(workers) < MaxWorkers
    /\ workers' = workers (+) SetToBag({ NewWorker(Selected) })
    /\ UNCHANGED << catVars, installed_games, navVars, zips, dirs, envVars,
                    mainpc, drawVars, procVars >>

\* (variant: a launch attempt drops the game from installed_games)
RunGameForgets ==
    /\ installed_games' = installed_games \ { Selected.name }
    /\ UNCHANGED << catVars, navVars, zips, dirs, envVars, workers, mainpc,
                    drawVars >>

\* What run_game leaves alone: it writes self.current_game_process only.
RunGameFrame ==
    UNCHANGED << catVars, installed_games, navVars, zips, dirs, envVars,
                 workers, mainpc, drawVars >>

\* handle_input, A / K_RETURN on an entry in installed_games: run_game(game).
\* DISPLAY is read from the environment at each call.
ActivateLaunch ==
    LET n == Selected.name
        d == dirs[n]
    IN /\ mainpc = "loop"
       /\ EntrySelected
       /\ PyIndex(selected_index, Len(games)) # 0
       /\ n \in installed_games
       /\ \/ /\ ~d.exists
             /\ success' = "False"
             /\ UNCHANGED << children, current_game_process >>
          \/ /\ d.exists
             /\ success' = "False"
             /\ UNCHANGED << children, current_game_process >>
          \/ /\ d.exists
             /\ LaunchChoices(d) = {}
             /\ current_game_process' = 0
             /\ success' = "False"
             /\ UNCHANGED children
          \/ /\ d.exists
             /\ Len(children) < MaxChildren
             /\ \E c \in LaunchChoices(d) :
                  /\ children' = Append(children, Child(n, c))
                  /\ current_game_process' =
                        IF c.tracked THEN Len(children) + 1 ELSE 0
             /\ success' = "True"
       /\ RunGameFrame

\* handle_input, B / K_BACKSPACE on an entry in installed_games: delete_game.
Remove ==
    /\ mainpc = "loop"
    /\ selected_index < Len(games)
    /\ PyIndex(selected_index, Len(games)) # 0
    /\ Selected.name \in installed_games
    /\ IF dirs[Selected.name].exists
       THEN /\ dirs' = [dirs EXCEPT ![Selected.name] = Removed(@)]
            /\ installed_games' = installed_games \ {Selected.name}
       ELSE UNCHANGED << dirs, installed_games >>
    /\ UNCHANGED << catVars, navVars, zips, envVars, workers, mainpc, drawVars,
                    procVars >>

\* handle_input, START / K_ESCAPE: return False, the loop ends.
Exit ==
    /\ mainpc = "loop"
    /\ mainpc' = "exited"
    /\ UNCHANGED << catVars, installed_games, navVars, zips, dirs, envVars,
                    workers, drawVars, procVars >>

\* ------------------------------------------------------------------ draw
\* Lines 615-618 read the row's dict three times, without progress_lock:
\* game.get('installing', False) ...
DrawInstalling(r) ==
    /\ mainpc = "loop"
    /\ r \in 1..Len(games)
    /\ games[r].prog.installing
    /\ mainpc' = "draw_progress"
    /\ row' = r
    /\ UNCHANGED << catVars, installed_games, navVars, zips, dirs, envVars,
                    workers, progress, procVars >>

\* ... progress = game.get('progress', 0) ...
DrawProgress ==
    /\ mainpc = "draw_progress"
    /\ progress' = IF games[row].prog.installing THEN games[row].prog.progress
                   ELSE 0
    /\ mainpc' = "draw_action"
    /\ UNCHANGED << catVars, installed_games, navVars, zips, dirs, envVars,
                    workers, row, procVars >>

\* ... action = game.get('action', 'Installing').
ReadAction(r) ==
    IF games[r].prog.installing THEN games[r].prog.action ELSE "Installing"

\* The row is rendered as "<name> - <action> <progress>%".
DrawAction ==
    /\ mainpc = "draw_action"
    /\ mainpc' = "loop"
    /\ row' = 0
    /\ progress' = 0
    /\ UNCHANGED << catVars, installed_games, navVars, zips, dirs, envVars,
                    workers, procVars >>

\* ------------------------------ ModernGameLauncher: install and uninstall
\* Everything GameLauncher (main.py) holds; the other program leaves it alone.
launcherVars ==
    << catVars, installed_games, navVars, zips, dirs, archive, glob_order,
       workers, mainpc, drawVars, procVars >>

\* The keys of self.games.
Listed ==
    { e.name : e \in win_games }

\* show_download_progress: the dialog takes the grab (grab_set) and is
\* destroyed when the thread ends, so no command of the main window arrives
\* while an installation runs.
DialogOpen ==
    download_and_install.pc \notin {"idle", "done"}

\* The top-level entries of install_dir.
TopLevel ==
    { d \in WinDirs : install_dir[d].exists }

\* The thread continues at the step pc.
WinStep(pc) ==
    [download_and_install EXCEPT !.pc = pc]

\* The thread ends: the dialog is destroyed.
WinEnd(result) ==
    [download_and_install EXCEPT !.pc = "done", !.result = result]

\* install_selected_game, lines 351-374 and 433: a game that is not in
\* self.games and that the repository lists; the thread is started.
install_selected_game ==
    /\ ~DialogOpen
    /\ \E g \in WinNames \ Listed :
          download_and_install' =
              [pc |-> "mkdir", game |-> g, zip |-> NoArchive, download |-> "none",
               result |-> "none", before |-> TopLevel]
    /\ UNCHANGED << win_games, install_dir, launcherVars >>

\* Lines 375-376: game_dir.mkdir(parents=True, exist_ok=True).
game_dir_mkdir ==
    /\ download_and_install.pc = "mkdir"
    /\ install_dir' =
          [install_dir EXCEPT ![GameDirName(download_and_install.game)].exists = TRUE]
    /\ download_and_install' = WinStep("download")
    /\ UNCHANGED << win_games, launcherVars >>

\* download_game_zip, lines 478-505: the request succeeds and the body is
\* written to a file in a new temporary directory.
download_game_zip ==
    /\ download_and_install.pc = "download"
    /\ \E z \in RepositoryZips :
          download_and_install' =
              [download_and_install EXCEPT !.pc = "extract", !.zip = z,
                                           !.download = "ok"]
    /\ UNCHANGED << win_games, install_dir, launcherVars >>

\* download_game_zip, lines 507-548: requests raises a RequestException (no
\* connection, timeout, HTTP error status); the except clause writes a zip of
\* its own with a generated game and returns its path.
download_game_zip_demo ==
    /\ download_and_install.pc = "download"
    /\ download_and_install' =
          [download_and_install EXCEPT !.pc = "extract", !.zip = DemoZip,
                                       !.download = "network_error"]
    /\ UNCHANGED << win_games, install_dir, launcherVars >>

\* download_game_zip, lines 550-552: any other exception; None is returned
\* and download_and_install returns at lines 380-382.
download_game_zip_fails ==
    /\ download_and_install.pc = "download"
    /\ download_and_install' =
          [WinEnd("aborted") EXCEPT !.download = "failed"]
    /\ UNCHANGED << win_games, install_dir, launcherVars >>

\* zipf.extractall(game_dir): the directory afterwards.
ExtractedAll(d, z) ==
    [d EXCEPT !.files = @ \cup z.files]

\* extract_game_zip: extractall, or BadZipFile re-raised to the except clause
\* of download_and_install (handle_installation_error).
extract_game_zip ==
    LET t == download_and_install
        g == GameDirName(t.game)
    IN /\ t.pc = "extract"
       /\ IF t.zip.readable
          THEN /\ install_dir' = [install_dir EXCEPT ![g] = ExtractedAll(@, t.zip)]
               /\ download_and_install' = WinStep("find")
          ELSE /\ install_dir' = install_dir
               /\ download_and_install' = WinEnd("error")
       /\ UNCHANGED << win_games, launcherVars >>

\* Lines 389-396, by file name under game_dir.
possible_executables ==
    << "<game>.exe", "<game>.exe", "<game>.py", "game.exe", "main.exe",
       "launcher.exe" >>

WinSuffix(f) ==
    IF f \in {"<game>.exe", "game.exe", "tool.exe"} THEN ".exe"
    ELSE IF f = "<game>.py" THEN ".py"
    ELSE ".md"

\* Lines 389-408: the first path that exists among the six listed, then those
\* of rglob("*.exe"), then those of rglob("*.py"); as a set, any member of
\* which an enumeration may yield first.
FirstExisting(d) ==
    LET hits == { k \in 1..Len(possible_executables) :
                     possible_executables[k] \in d.files }
        exes == { f \in d.files : WinSuffix(f) = ".exe" }
        pys == { f \in d.files : WinSuffix(f) = ".py" }
    IN IF hits # {}
       THEN { possible_executables[CHOOSE k \in hits : \A j \in hits : k <= j] }
       ELSE IF exes # {} THEN exes ELSE pys

\* (variant: when nothing is found, create_fallback_game writes <game>.py and
\* the entry is added for it)
find_executable_fallback ==
    LET t == download_and_install
        g == GameDirName(t.game)
        found == FirstExisting(install_dir[g])
    IN /\ t.pc = "find"
       /\ install_dir' = IF found = {}
                         THEN [install_dir EXCEPT ![g].files = @ \cup {"<game>.py"}]
                         ELSE install_dir
       /\ \E f \in (IF found = {} THEN {"<game>.py"} ELSE found) :
             win_games' = { e \in win_games : e.name # t.game }
                             \cup { [name |-> t.game, dir |-> g, file |-> f] }
       /\ download_and_install' = WinEnd("installed")
       /\ UNCHANGED launcherVars

\* Lines 389-428: the search for the executable; the entry is added to
\* self.games and saved, or handle_installation_error is called.
find_executable ==
    LET t == download_and_install
        g == GameDirName(t.game)
    IN /\ t.pc = "find"
       /\ IF FirstExisting(install_dir[g]) = {}
          THEN /\ win_games' = win_games
               /\ download_and_install' = WinEnd("error")
          ELSE /\ \E f \in FirstExisting(install_dir[g]) :
                     win_games' = { e \in win_games : e.name # t.game }
                                     \cup { [name |-> t.game, dir |-> g, file |-> f] }
               /\ download_and_install' = WinEnd("installed")
       /\ UNCHANGED << install_dir, launcherVars >>

\* game_path.unlink(): the directory afterwards.
Unlinked(d, f) ==
    [d EXCEPT !.files = @ \ {f}]

\* uninstall_selected_game, confirmed: the file self.games[name]['path'] is
\* unlinked when it exists (a failure of unlink, the file being in use, is
\* passed over), the entry is deleted and self.games saved.
uninstall_selected_game ==
    /\ ~DialogOpen
    /\ \E e \in win_games :
          /\ \/ install_dir' = [install_dir EXCEPT ![e.dir] = Unlinked(@, e.file)]
             \/ e.file \in install_dir[e.dir].files /\ install_dir' = install_dir
          /\ win_games' = win_games \ {e}
    /\ UNCHANGED << download_and_install, launcherVars >>

\* ------------------------------------------------------------------ Next
Install ==
    \/ CheckInstalled
    \/ MoveUp
    \/ MoveDown
    \/ ActivateInstall
    \/ Remove
    \/ Start
    \/ Request
    \/ RequestFails
    \/ RequestHttpError
    \/ Chunk
    \/ ChunkFails
    \/ ExtractOpen
    \/ ExtractEntry
    \/ ExtractFails
    \/ Permissions
    \/ Cleanup
    \/ Finish

Draw ==
    \/ \E r \in 1..MaxCatalog : DrawInstalling(r)
    \/ DrawProgress
    \/ DrawAction

Catalog ==
    \/ RefreshRemote
    \/ RefreshFallback
    \/ ToggleExit
    \/ SelectCrash

Launch ==
    \/ ActivateLaunch
    \/ Poll
    \/ \E k \in 1..MaxChildren : ChildExits(k)

Leave ==
    \/ ActivateShutdown
    \/ Exit

Windows ==
    \/ install_selected_game
    \/ game_dir_mkdir
    \/ download_game_zip
    \/ download_game_zip_demo
    \/ download_game_zip_fails
    \/ extract_game_zip
    \/ find_executable
    \/ uninstall_selected_game

Next ==
    \/ Install
    \/ Draw
    \/ Catalog
    \/ Launch
    \/ Leave
    \/ Windows
    \/ RequestUnderstated

\* The whole launcher.
Spec == Init /\ [][Next]_vars

\* The install pipeline of a catalog of one entry, as loaded at startup into a
\* new games/: the workers, with the commands and the periodic scan of the
\* presentation thread.
InitInstall ==
    /\ Init
    /\ Len(games) = 1
    /\ dirs = [n \in Names |-> NoDir]
    /\ glob_order = FileSeq
    /\ archive["g1"] \in ArchiveKinds
SpecInstall == InitInstall /\ [][Install]_vars

\* The same pipeline on the archives of FixupKinds, in either enumeration order.
InitFixup ==
    /\ Init
    /\ Len(games) = 1
    /\ dirs = [n \in Names |-> NoDir]
    /\ archive["g1"] \in FixupKinds
SpecFixup == InitFixup /\ [][Install]_vars

\* The same pipeline with responses that understate their length.
SpecProgress == InitInstall /\ [][Install \/ RequestUnderstated]_vars

\* The same, with the redraw cycle reading the progress fields.
SpecDraw == InitInstall /\ [][Install \/ Draw]_vars

\* The catalog and the selection, with no installation running.
SpecCatalog == Init /\ [][Catalog \/ MoveUp \/ MoveDown \/ Leave]_vars

\* Launching from a catalog of the one entry g1 whose directory games/g1 is
\* there when the launcher starts; nothing is installed or deleted.
InitLaunch ==
    /\ Init
    /\ Len(games) = 1
    /\ games[1].name = "g1"
    /\ dirs["g1"].exists
SpecLaunch ==
    InitLaunch /\ [][CheckInstalled \/ MoveUp \/ MoveDown \/ Launch \/ Leave]_vars

\* Activate on the one entry g1, a local archive in a new games/: installing
\* it, launching it and deleting it, with the periodic scan.
InitActivate ==
    /\ Init
    /\ Len(games) = 1
    /\ games[1].name = "g1"
    /\ ~games[1].remote
    /\ dirs = [n \in Names |-> NoDir]
    /\ glob_order = FileSeq
    /\ archive["g1"] = <<"GameRuntime", "readme.txt">>

Activate ==
    \/ CheckInstalled
    \/ MoveUp
    \/ MoveDown
    \/ ActivateInstall
    \/ ActivateLaunch
    \/ Remove
    \/ Start
    \/ ExtractOpen
    \/ ExtractEntry
    \/ Permissions
    \/ Cleanup
    \/ Finish

SpecActivate == InitActivate /\ [][Activate]_vars

\* The same commands on a game packaged as the single script main.py.
InitScript ==
    /\ Init
    /\ Len(games) = 1
    /\ games[1].name = "g1"
    /\ ~games[1].remote
    /\ dirs = [n \in Names |-> NoDir]
    /\ glob_order = FileSeq
    /\ archive["g1"] = <<"main.py">>
SpecScript == InitScript /\ [][Activate]_vars

\* The same with the scheduling of run(): the while loop reaches the poll of
\* lines 679-689 in every iteration, so a poll that stays possible is taken.
SpecLaunchFair == SpecLaunch /\ WF_vars(Poll)

\* ModernGameLauncher on a new install_dir with an empty games.json; the
\* other launcher is not running.
InitWindows ==
    /\ Init
    /\ games = <<>>
    /\ dirs = [n \in Names |-> NoDir]
    /\ glob_order = FileSeq
    /\ archive["g1"] = <<>>
SpecWindows == InitWindows /\ [][Windows]_vars

\* ============================================================ properties
Range(s) == { s[k] : k \in 1..Len(s) }

\* The threads installing n that are at one of the steps pcs.
InFlight(n, pcs) ==
    { r \in Threads : r.name = n /\ r.pc \in pcs }

\* The progress fields of the catalog entry update_install_progress finds.
ProgressOf(n) ==
    IF FirstIndex(n) = 0 THEN NoProgress ELSE games[FirstIndex(n)].prog

\* C1: for every game, at most one install_game thread is downloading or
\* extracting at a time: an Activate that arrives while an installation of
\* the same game is unfinished starts no second one.
C1_SingleInstallPerGame ==
    \A n \in Names : Copies(InFlight(n, {"download", "extract"})) <= 1

\* C2: a game carries progress fields only while an installation of it is
\* running: once its install_game thread has returned, by success or by any
\* failure, the fields are gone.
C2_NoStaleProgress ==
    \A n \in Names : HasProgress(n) => \E r \in Threads : r.name = n /\ Running(r)

\* C3: within one installation the game is not reported installed (is not in
\* installed_games) before its extraction and its permission fix-up are over.
C3_InstalledAfterFixup ==
    \A r \in Threads :
        r.pc \in {"request", "download", "extract_open", "extract", "permissions"}
            => r.name \notin installed_games

\* C4: games/<name> is absent before any install of the game, present in the
\* state right after install_game returns True, and absent in the state right
\* after delete_game returns True, whatever else is interleaved.
C4_InstallStateAtReturn ==
    [][ /\ \A n \in Names : (\A r \in Threads : r.name # n) => ~dirs[n].exists
        /\ \A me \in Threads :
              (me.pc = "finish" /\ Step(me, Return(me, "True")))
                  => dirs'[me.name].exists
        /\ (Remove /\ dirs[Selected.name].exists) => ~dirs'[Selected.name].exists
      ]_vars

\* C5: a successful install_game of an entry (remote or local archive) followed
\* by delete_game leaves games/ with the top-level entries it had before the
\* install began; the installation is the only one of the behaviour.
C5_RoundTrip ==
    [][ \A r \in Threads :
          ( /\ Remove
            /\ dirs[Selected.name].exists
            /\ r.name = Selected.name
            /\ r.pc = "done" /\ r.result = "True"
            /\ BagCardinality(workers) = 1 )
          => RootEntries' = r.before
      ]_vars

\* The (action, percentage) pairs one update_install_progress call stores for
\* the game n: those of the chunk loop and those of the entry loop.
Writable(n) ==
    { <<"Downloading", DownloadPercent(k, NumChunks)>> : k \in 1..NumChunks }
      \cup { <<"Extracting", ExtractPercent(k, Len(archive[n]))>> :
                k \in 1..Len(archive[n]) }

\* C6: the (action, progress) pair draw renders for a row was stored together
\* by one update_install_progress call: never the action of one call with the
\* percentage of another, never the defaults of fields already removed.
C6_NoTornRead ==
    [][ DrawAction => <<ReadAction(row), progress>> \in Writable(games[row].name)
      ]_vars

\* C7: while an install_game thread is downloading, the game's progress fields
\* say Downloading, and while it is extracting they say Extracting, from the
\* first moment of the phase and whether or not a total size was declared.
C7_ProgressWhileInFlight ==
    \A r \in Threads :
        /\ r.pc = "download" => ProgressOf(r.name).action = "Downloading"
        /\ r.pc = "extract" => ProgressOf(r.name).action = "Extracting"

\* A file name some resolution rule accepts without looking at permissions:
\* the names set_execute_permissions looks for, the names and the shape
\* run_game's scan accepts, its common names with extensions, any *.py.
Accepted(f) ==
    \/ f \in Range(main_executables)
    \/ IsMainExecutable(f)
    \/ CommonRank(f) > 0
    \/ Suffix(f) = ".py"

\* C8: install_game returns True only for a game whose files include one that
\* an executable-resolution rule accepts; otherwise it aborts with False.
C8_NoExecutableAborts ==
    \A r \in Threads :
        (r.pc = "done" /\ r.result = "True")
            => \E f \in Range(archive[r.name]) : Accepted(f)

\* An install_game call on an archive without entries has got past extraction.
EmptyExtracted(r) ==
    /\ r.pc = "done"
    /\ archive[r.name] = <<>>
    /\ r.stage \notin {"start", "request", "download", "extract_open"}

\* C9: an install_game call whose archive yields no entry returns False, and
\* then games/<name> does not exist and the name is not in installed_games.
C9_EmptyArchiveFails ==
    \A r \in Threads :
        EmptyExtracted(r) =>
            /\ r.result = "False"
            /\ ~dirs[r.name].exists
            /\ r.name \notin installed_games

C9_Witness ==
    \E r \in Threads : EmptyExtracted(r) /\ r.stage = "permissions"

\* C10: after a load_games call whose remote fetch failed while games/ holds
\* no archive, the catalog is empty, whatever it was before the call.
C10_FailedFetchEmptyCatalog ==
    (fetch = "failed" /\ LocalZipNames = {}) => games = <<>>

\* C11: after any sequence of load_games calls the catalog holds no two
\* entries of the same name.
C11_UniqueNames ==
    \A i, j \in 1..Len(games) : games[i].name = games[j].name => i = j

\* The children run_game has spawned that have not exited.
LiveChildren ==
    { k \in 1..Len(children) : children[k].alive }

\* C12: at most one child process spawned by run_game is alive at a time.
C12_OneGameAtATime ==
    Cardinality(LiveChildren) <= 1

\* C13: whenever run_game spawns a child and returns True, by whichever of
\* its three passes, current_game_process refers to that child afterwards.
C13_HandleOnEveryLaunch ==
    [][ (ActivateLaunch /\ Len(children') = Len(children) + 1)
            => current_game_process' = Len(children')
      ]_vars

\* C14: a run_game call that returns False leaves games/, installed_games and
\* every entry's progress fields as they were before the call.
C14_FailedLaunchKeepsState ==
    [][ (ActivateLaunch /\ success' = "False")
            => /\ dirs' = dirs
               /\ installed_games' = installed_games
               /\ games' = games
      ]_vars

\* A launch of the installed g1 has failed after the display check: nothing in
\* games/g1 could be started.
C14_Witness ==
    /\ success = "False"
    /\ current_game_process = 0
    /\ children = <<>>
    /\ "g1" \in installed_games
    /\ dirs["g1"].exists

\* The name matches one of the listed names, in any case.
NameMatches(f) ==
    Lower(f) \in { Lower(main_executables[k]) : k \in 1..Len(main_executables) }

\* C15: when the game directory holds an executable file with a listed name
\* and other files that only have execute permission or a capitalised name
\* without suffix, run_game starts a file with a listed name, in every
\* enumeration order. (No directory changes after a launch here.)
C15_ListedNameFirst ==
    \A k \in 1..Len(children) :
        LET d == dirs[children[k].name]
        IN (\E f \in d.files : NameMatches(f) /\ IsExecutable(d, f))
              => NameMatches(children[k].file)

\* The files of d the scan of run_game accepts and can start.
ScanCandidates(d) ==
    { f \in d.files : (IsExecutable(d, f) \/ IsMainExecutable(f))
                        /\ SpawnsDirectly(d, f) }

C17_ListedNameMadeExecutable ==
    \A r \in Threads :
        (r.pc = "done" /\ r.result = "True")
            => \A f \in dirs[r.name].files :
                  NameMatches(f) => IsExecutable(dirs[r.name], f)

\* C18: every .py file run_game starts is handed to the interpreter, whichever
\* pass chose it and whether or not it has execute permission.
C18_ScriptsViaInterpreter ==
    \A k \in 1..Len(children) :
        Suffix(children[k].file) = ".py" => children[k].via = "python"

\* C19: an installation whose download request was answered with an HTTP error
\* does not get past download_with_progress: it never stands before or inside
\* extract_with_progress.
C19_HttpErrorAborts ==
    \A r \in Threads :
        r.status = "error" => r.pc \notin {"extract_open", "extract"}

\* C20: when install_game of a remote entry returns after extract_with_progress
\* has returned (from the permission fix-up by an exception, or at the end),
\* games/<name>.zip does not exist.
C20_ArchiveDeletedAfterExtract ==
    [][ \A me \in Threads :
          ( /\ me.remote
            /\ \/ me.pc = "permissions" /\ Step(me, Raise(me))
               \/ me.pc = "finish" /\ Step(me, Return(me, "True")) )
          => ~zips'[me.name].exists
      ]_vars

\* C21: whenever Activate or Remove is dispatched on a catalog entry, the
\* entry's name is in installed_games exactly when games/<name> exists at
\* that moment.
C21_InstalledIffDirectory ==
    [][ (ActivateInstall \/ ActivateLaunch \/ Remove)
            => (Selected.name \in installed_games <=> dirs[Selected.name].exists)
      ]_vars

\* C22: delete_game never removes games/<name> while an install_game thread
\* of that name is inside extract_with_progress or before the end of
\* set_execute_permissions.
C22_NoDeleteDuringInstall ==
    [][ (Remove /\ dirs[Selected.name].exists)
            => InFlight(Selected.name, {"extract", "permissions"}) = {}
      ]_vars

\* The steps of install_game that run inside its try block after the
\* "already installed" test.
TrySteps ==
    { "request", "download", "extract_open", "extract", "permissions", "cleanup" }

\* C23: an install_game thread that ends at any step of the download, the
\* extraction, the permission fix-up or the cleanup has returned False, no
\* thread ends otherwise than by returning True or False, and a step of a
\* thread leaves the presentation loop where it was.
C23_InstallErrorsCaught ==
    [][ (workers' # workers /\ BagCardinality(workers') = BagCardinality(workers))
            => /\ mainpc' = mainpc
               /\ \A r \in BagToSet(workers') :
                     ~Running(r) =>
                        /\ r.result \in {"True", "False"}
                        /\ r.stage \in TrySteps => r.result = "False"
      ]_vars

\* Two installations of g1 have failed, one in mid-transfer and one while
\* extracting, and the presentation loop is running.
C23_Witness ==
    /\ mainpc = "loop"
    /\ \E r \in Threads : ~Running(r) /\ r.stage = "download" /\ r.result = "False"
    /\ \E r \in Threads : ~Running(r) /\ r.stage = "extract" /\ r.result = "False"

\* C24: in ModernGameLauncher, once the download of the selected game has
\* failed with a network error, the installation thread extracts nothing into
\* the game directory and adds no entry to self.games.
C24_NetworkErrorAborts ==
    [][ ( /\ download_and_install.download = "network_error"
          /\ download_and_install'.game = download_and_install.game
          /\ download_and_install' # download_and_install )
            => (install_dir' = install_dir /\ win_games' = win_games)
      ]_vars

\* C25: in ModernGameLauncher, uninstall_selected_game of the game that
\* install_selected_game installed last leaves install_dir with the
\* top-level entries it had when that installation began.
C25_WindowsRoundTrip ==
    [][ ( /\ uninstall_selected_game
          /\ download_and_install.result = "installed"
          /\ download_and_install.game \in Listed
          /\ download_and_install.game \notin { e.name : e \in win_games' } )
            => TopLevel' = download_and_install.before
      ]_vars

\* Once the child current_game_process refers to has exited, the handle stops
\* referring to it, unless the loop of run() has ended.
ClearedAfterExit ==
    \A k \in 1..MaxChildren :
        (current_game_process = k /\ ~children[k].alive)
            ~> (current_game_process # k \/ ~Alive)

\* No step takes the handle off a child that is alive.
KeptWhileRunning ==
    [][ \A k \in 1..MaxChildren :
          (current_game_process = k /\ children[k].alive)
              => current_game_process' = k
      ]_vars

\* C26: with the loop of run() scheduled fairly, the handle on a child that
\* has exited is eventually cleared by the poll, and the handle on a child
\* that is still running is never cleared.
C26_HandlePolled ==
    ClearedAfterExit /\ KeptWhileRunning

\* The items of a listing whose name ends in .zip, in listing order.
ZipItems(l) ==
    SelectSeq(l, LAMBDA c : c.ext = ".zip")

\* C27: a load_games call whose remote listing arrives leaves a catalog of
\* exactly one new entry per listing item ending in .zip, in listing order:
\* no entry for another item, none kept from before the call.
C27_CatalogFromListing ==
    [][ RefreshRemote =>
          \E l \in RemoteListings :
              /\ Len(games') = Len(ZipItems(l))
              /\ \A k \in 1..Len(games') :
                    games'[k] = Entry(ZipItems(l)[k].name, TRUE)
      ]_vars

\* The listing README.md, g1.zip has replaced a catalog of two entries (the
\* selection still stands on the row after the second).
C27_Witness ==
    /\ fetch = "ok"
    /\ Len(games) = 1
    /\ games[1].name = "g1"
    /\ selected_index = 2

\* C28: every percentage stored in a catalog entry's progress field is within
\* 0..100, whatever length the response declared, however many chunks
\* arrived and however many entries the archive has.
C28_PercentInRange ==
    \A k \in 1..Len(games) :
        games[k].prog.installing =>
            (games[k].prog.progress >= 0 /\ games[k].prog.progress <= 100)

\* The steps that wait for the network: the catalog fetch of load_games and
\* the request and the chunk loop of download_with_progress.
NetworkStep ==
    \/ RefreshRemote
    \/ RefreshFallback
    \/ Request
    \/ RequestUnderstated
    \/ RequestHttpError
    \/ RequestFails
    \/ Chunk
    \/ ChunkFails

\* The steps of extract_with_progress.
ExtractionStep ==
    \/ ExtractOpen
    \/ ExtractEntry
    \/ ExtractFails

\* A step taken by one of the threads started at lines 479-481: the thread
\* has moved on, none was started.
WorkerStep ==
    /\ workers' # workers
    /\ BagCardinality(workers') = BagCardinality(workers)

\* C29: every network request (the catalog fetch of a refresh, the download
\* of an archive) and every extraction is a step of a background thread,
\* never of the presentation thread.
C29_NetworkOnWorkersOnly ==
    [][ (NetworkStep \/ ExtractionStep) => WorkerStep ]_vars

\* C30: with a catalog entry selected, Activate on an entry in installed_games
\* calls run_game and starts no thread, Activate on an entry not in
\* installed_games starts exactly one install_game thread of that entry and
\* launches nothing; threads and children come from no other dispatch.
C30_ActivateDispatch ==
    [][ /\ ActivateLaunch =>
              (Selected.name \in installed_games /\ workers' = workers)
        /\ ActivateInstall =>
              /\ Selected.name \notin installed_games
              /\ workers' = workers (+) SetToBag({ NewWorker(Selected) })
              /\ BagCardinality(workers') = BagCardinality(workers) + 1
              /\ procVars' = procVars
        /\ Len(children') > Len(children) => Selected.name \in installed_games
        /\ BagCardinality(workers') > BagCardinality(workers) =>
              Selected.name \notin installed_games
      ]_vars

\* g1 has been installed by a thread that Activate started, and launched by a
\* later Activate.
C30_Witness ==
    /\ \E r \in Threads : r.name = "g1" /\ r.pc = "done" /\ r.result = "True"
    /\ Len(children) >= 1
    /\ children[1].name = "g1"
    /\ success = "True"

\* C31: in ModernGameLauncher, when none of the candidate paths exists in the
\* game directory after the extraction, the installation ends with
\* handle_installation_error: no entry is added to self.games and no file is
\* written into install_dir.
C31_NoExecutableIsError ==
    [][ ( /\ download_and_install.pc = "find"
          /\ FirstExisting(install_dir[GameDirName(download_and_install.game)]) = {}
          /\ download_and_install' # download_and_install )
            => /\ download_and_install'.result = "error"
               /\ win_games' = win_games
               /\ install_dir' = install_dir
      ]_vars

\* An installation whose archive was extracted has ended in an error, and the
\* game is not in self.games.
C31_Witness ==
    /\ download_and_install.pc = "done"
    /\ download_and_install.result = "error"
    /\ download_and_install.zip.readable
    /\ download_and_install.game \notin Listed

\* The install_game threads of n that have not yet come out of
\* set_execute_permissions.
Installing(n) ==
    InFlight(n, {"request", "download", "extract_open", "extract", "permissions"})

\* C32: run_game spawns no child from games/<name> while an install_game
\* thread of that name has not finished its extraction and its permission
\* fix-up.
C32_NoLaunchDuringInstall ==
    [][ (ActivateLaunch /\ Len(children') > Len(children))
            => Installing(Selected.name) = {}
      ]_vars

\* C33: check_installed_games reports a game as installed only when an
\* installation of it has succeeded: after an install_game thread has failed in
\* the middle of its extraction, the game is not put into installed_games by
\* the scan unless an installation of it is running or one has returned True.
C33_OnlyCompletedInstalls ==
    [][ CheckInstalled =>
          \A n \in installed_games' :
              \E r \in Threads : r.name = n /\ (Running(r) \/ r.result = "True")
      ]_vars

\* C34: while a catalog entry carries progress fields, its action never goes
\* from Extracting back to Downloading, and while the action stays the same
\* its percentage never decreases, whatever threads and commands interleave.
C34_ProgressMonotone ==
    [][ \A k \in 1..Len(games) :
          ( /\ Len(games') = Len(games)
            /\ games[k].prog.installing
            /\ games'[k].prog.installing )
          => /\ ~( /\ games[k].prog.action = "Extracting"
                   /\ games'[k].prog.action = "Downloading" )
             /\ games'[k].prog.action = games[k].prog.action
                   => games'[k].prog.progress >= games[k].prog.progress
      ]_vars

\* C35: after any sequence of UP, DOWN, LEFT and SELECT commands, for every
\* catalog size, selected_index is at least 0 and at most len(games), so
\* games[selected_index] in Activate and Remove never raises.
C35_SelectionInRange ==
    /\ selected_index >= 0
    /\ selected_index <= Len(games)
    /\ mainpc # "crashed"

\* C36: for every content of a game directory in which
\* set_execute_permissions makes some file executable, the file run_game
\* starts from that directory, left as the fix-up left it, is that file.
C36_InstallAndLaunchAgree ==
    [][ (ActivateLaunch /\ Len(children') > Len(children)) =>
          LET d == dirs[Selected.name]
          IN (ChmodTargets(d) # {} /\ Chmodded(d) = d)
                => children'[Len(children')].file \in ChmodTargets(d)
      ]_vars

\* C37: an install_game call that finds games/<name> in place returns False
\* at once: it goes to no download and no extraction, and games/, the staged
\* archives, installed_games and every entry's progress fields are as before.
C37_AlreadyInstalledNoChange ==
    [][ \A me \in Threads : \A new \in BagToSet(workers') :
          (me.pc = "start" /\ dirs[me.name].exists /\ new # me /\ Step(me, new))
            => /\ new.pc = "done"
               /\ new.result = "False"
               /\ dirs' = dirs
               /\ zips' = zips
               /\ installed_games' = installed_games
               /\ games' = games
      ]_vars

\* An install_game call has returned False from the "already installed" test
\* while games/<name> was there.
C37_Witness ==
    \E r \in Threads :
        /\ r.pc = "done"
        /\ r.stage = "start"
        /\ r.result = "False"
        /\ dirs[r.name].exists

====
